---- MODULE Spec2Model ----
(***************************************************************************)
(* Power sequencing of the Sharp LS037V7DW06 panel driver                  *)
(* (src/ls037v7dw06/ls037v7dw06.c).                                        *)
(*                                                                         *)
(* The driver is modelled statement by statement: pc names the source line *)
(* that executes next ("L62" is line 62 of ls037v7dw06.c), so that every   *)
(* intermediate point inside sharp_ls_enable and sharp_ls_disable is a     *)
(* state.  Two specifications share the step actions:                      *)
(*   Spec     the driver lifecycle: sharp_ls_probe and sharp_ls_remove as  *)
(*            the i2c core calls them (probe, then remove once bound);     *)
(*   SeqSpec  sharp_ls_enable and sharp_ls_disable called directly, in any *)
(*            order, on one constructed panel (the contract of the two     *)
(*            functions in states no caller inside the file produces).     *)
(***************************************************************************)
EXTENDS Integers, Sequences, FiniteSets, TLC

VARIABLES
    pc,            \* the source line that executes next, or a resting place:
                   \* "unbound", "bound", "ready", "oops"
    ret_pc,        \* where the running sequence function returns to
                   \* (line 237 after line 235, line 248 after line 246)
    enabled,       \* panel->enabled (line 39)
    backlight,     \* panel->backlight (line 50): "null" or "valid"
    of_backlight,  \* the device node has a "backlight" phandle (line 213)
    supply_count,  \* enable count of panel->supply (line 45)
    resb_gpio,     \* logical level of panel->resb_gpio (line 47)
    clk_gpio,      \* logical level of panel->clk_gpio (line 48)
    i2ciso_gpio,   \* logical level of panel->i2ciso_gpio (line 49)
    props,         \* panel->backlight->props: state, power, brightness,
                   \* max_brightness (lines 99-101, 115-117)
    bl_hw,         \* the props last pushed by backlight_update_status
                   \* (lines 102, 118)
    trace,         \* history: the resource operations of the running (or
                   \* last) sequence call, in the order they were made
    retval,        \* value returned by the last returned function
    entry,         \* history: the state on entry to the sequence function
    aborted        \* history: an earlier sequence call on this panel object
                   \* returned non-zero

vars == <<pc, ret_pc, enabled, backlight, of_backlight, supply_count, resb_gpio,
          clk_gpio, i2ciso_gpio, props, bl_hw, trace, retval, entry, aborted>>

----------------------------------------------------------------------------
(* Bounds of the model.                                                    *)

\* The regulator's enable count is capped: no sequence starts at the cap.
MaxSupply == 2
\* Largest max_brightness a backlight device is given.
MaxBrightness == 2

----------------------------------------------------------------------------
(* Program constants.                                                      *)

LS037V7DW06_SLEEP_OFF == 16   \* 0x10
LS037V7DW06_SLEEP_ON == 17    \* 0x11
LS037V7DW06_DISP_OFF == 40    \* 0x28
LS037V7DW06_DISP_ON == 41     \* 0x29

\* <linux/backlight.h>, <linux/fb.h>
BL_CORE_FBBLANK == 2
FB_BLANK_UNBLANK == 0
FB_BLANK_POWERDOWN == 4

\* errno values the driver names
EIO == 5
ENOMEM == 12
EPROBE_DEFER == 517

\* Error codes a failing regulator or SMBus call may return.
FailCodes == {-EIO, -ENOMEM}

----------------------------------------------------------------------------
(* Helpers.                                                                *)

\* One logged resource operation.
Op(op, a, b, r) == [op |-> op, a |-> a, b |-> b, r |-> r]

\* s & ~bit and s | bit for a single-bit mask.
ClearBit(s, bit) == s - ((s \div bit) % 2) * bit
SetBit(s, bit) == s + (1 - ((s \div bit) % 2)) * bit
HasBit(s, bit) == (s \div bit) % 2 = 1

\* PanelState as the driver records it: the enabled flag, nothing else.
PanelState == IF enabled THEN "Active" ELSE "Inactive"

\* What the sequence functions can see on entry.
Snapshot(fn) ==
    [fn |-> fn, enabled |-> enabled, supply_count |-> supply_count,
     resb_gpio |-> resb_gpio, clk_gpio |-> clk_gpio,
     i2ciso_gpio |-> i2ciso_gpio, props |-> props, bl_hw |-> bl_hw,
     aborted |-> aborted]

BacklightProps ==
    { p \in [state : 0..3, power : {FB_BLANK_UNBLANK, FB_BLANK_POWERDOWN},
             brightness : 0..MaxBrightness, max_brightness : 1..MaxBrightness] :
        p.brightness <= p.max_brightness }

NoEntry ==
    [fn |-> "none", enabled |-> FALSE, supply_count |-> 0, resb_gpio |-> 0,
     clk_gpio |-> 0, i2ciso_gpio |-> 0,
     props |-> [state |-> 0, power |-> FB_BLANK_UNBLANK, brightness |-> 0,
                max_brightness |-> 1],
     bl_hw |-> [state |-> 0, power |-> FB_BLANK_UNBLANK, brightness |-> 0,
                max_brightness |-> 1],
     aborted |-> FALSE]

----------------------------------------------------------------------------
(* Init: no driver bound, the panel de-energized, the backlight device in  *)
(* any state its own driver may have left it in.                           *)

Init ==
    /\ pc = "unbound"
    /\ ret_pc = "unbound"
    /\ enabled = FALSE
    /\ backlight = "null"
    /\ of_backlight \in BOOLEAN
    /\ supply_count = 0
    /\ resb_gpio = 0
    /\ clk_gpio = 0
    /\ i2ciso_gpio = 0
    /\ props \in BacklightProps
    /\ bl_hw = props
    /\ trace = <<>>
    /\ retval = 0
    /\ entry = NoEntry
    /\ aborted = FALSE

----------------------------------------------------------------------------
(* sharp_ls_enable, lines 58-108.                                          *)

\* Leaving a sequence function with value r.
Return(r) ==
    /\ pc' = ret_pc
    /\ retval' = r
    /\ aborted' = (aborted \/ r # 0)

\* Mutant of enable_L62: the panel is marked enabled at the start.
enable_L62_marks_enabled ==
    /\ pc = "L62"
    /\ resb_gpio' = 0
    /\ enabled' = TRUE
    /\ trace' = Append(trace, Op("resb_gpio", 0, 0, 0))
    /\ pc' = "L64"
    /\ UNCHANGED <<ret_pc, backlight, of_backlight, supply_count, clk_gpio,
                   i2ciso_gpio, props, bl_hw, retval, entry, aborted>>

enable_L62 ==
    /\ pc = "L62"
    /\ resb_gpio' = 0
    /\ trace' = Append(trace, Op("resb_gpio", 0, 0, 0))
    /\ pc' = "L64"
    /\ UNCHANGED <<ret_pc, enabled, backlight, of_backlight, supply_count,
                   clk_gpio, i2ciso_gpio, props, bl_hw, retval, entry, aborted>>

\* Mutant of enable_L64: the isolation line is driven high.
enable_L64_drives_high ==
    /\ pc = "L64"
    /\ i2ciso_gpio' = 1
    /\ trace' = Append(trace, Op("i2ciso_gpio", 1, 0, 0))
    /\ pc' = "L67"
    /\ UNCHANGED <<ret_pc, enabled, backlight, of_backlight, supply_count,
                   resb_gpio, clk_gpio, props, bl_hw, retval, entry, aborted>>

enable_L64 ==
    /\ pc = "L64"
    /\ i2ciso_gpio' = 0
    /\ trace' = Append(trace, Op("i2ciso_gpio", 0, 0, 0))
    /\ pc' = "L67"
    /\ UNCHANGED <<ret_pc, enabled, backlight, of_backlight, supply_count,
                   resb_gpio, clk_gpio, props, bl_hw, retval, entry, aborted>>

\* Mutant of enable_L67: the result of regulator_enable is not tested.
enable_L67_ignore_error ==
    /\ pc = "L67"
    /\ \E r \in {0} \cup FailCodes :
        /\ trace' = Append(trace, Op("regulator_enable", 0, 0, r))
        /\ supply_count' = IF r = 0 THEN supply_count + 1 ELSE supply_count
        /\ pc' = "L72"
    /\ UNCHANGED <<ret_pc, enabled, backlight, of_backlight, resb_gpio,
                   clk_gpio, i2ciso_gpio, props, bl_hw, retval, entry,
                   aborted>>

enable_L67 ==
    /\ pc = "L67"
    /\ \E r \in {0} \cup FailCodes :
        /\ trace' = Append(trace, Op("regulator_enable", 0, 0, r))
        /\ IF r # 0
           THEN /\ Return(r)
                /\ UNCHANGED supply_count
           ELSE /\ supply_count' = supply_count + 1
                /\ pc' = "L72"
                /\ UNCHANGED <<retval, aborted>>
    /\ UNCHANGED <<ret_pc, enabled, backlight, of_backlight, resb_gpio,
                   clk_gpio, i2ciso_gpio, props, bl_hw, entry>>

\* Mutant of enable_L72: the power-up wait is 1 ms.
enable_L72_short_wait ==
    /\ pc = "L72"
    /\ trace' = Append(trace, Op("msleep", 1, 0, 0))
    /\ pc' = "L75"
    /\ UNCHANGED <<ret_pc, enabled, backlight, of_backlight, supply_count,
                   resb_gpio, clk_gpio, i2ciso_gpio, props, bl_hw, retval,
                   entry, aborted>>

enable_L72 ==
    /\ pc = "L72"
    /\ trace' = Append(trace, Op("msleep", 10, 0, 0))
    /\ pc' = "L75"
    /\ UNCHANGED <<ret_pc, enabled, backlight, of_backlight, supply_count,
                   resb_gpio, clk_gpio, i2ciso_gpio, props, bl_hw, retval,
                   entry, aborted>>

enable_L75 ==
    /\ pc = "L75"
    /\ resb_gpio' = 1
    /\ trace' = Append(trace, Op("resb_gpio", 1, 0, 0))
    /\ pc' = "L78"
    /\ UNCHANGED <<ret_pc, enabled, backlight, of_backlight, supply_count,
                   clk_gpio, i2ciso_gpio, props, bl_hw, retval, entry, aborted>>

enable_L78 ==
    /\ pc = "L78"
    /\ trace' = Append(trace, Op("msleep", 1, 0, 0))
    /\ pc' = "L81"
    /\ UNCHANGED <<ret_pc, enabled, backlight, of_backlight, supply_count,
                   resb_gpio, clk_gpio, i2ciso_gpio, props, bl_hw, retval,
                   entry, aborted>>

\* Mutant of enable_L81: the other sleep opcode is written.
enable_L81_wrong_opcode ==
    /\ pc = "L81"
    /\ \E r \in {0} \cup FailCodes :
        /\ trace' = Append(trace, Op("i2c_write", LS037V7DW06_SLEEP_OFF, 0, r))
        /\ IF r # 0
           THEN Return(r)
           ELSE /\ pc' = "L87"
                /\ UNCHANGED <<retval, aborted>>
    /\ UNCHANGED <<ret_pc, enabled, backlight, of_backlight, supply_count,
                   resb_gpio, clk_gpio, i2ciso_gpio, props, bl_hw, entry>>

\* Mutant of enable_L81: the write's result is not tested.
enable_L81_ignore_error ==
    /\ pc = "L81"
    /\ \E r \in {0} \cup FailCodes :
        /\ trace' = Append(trace, Op("i2c_write", LS037V7DW06_SLEEP_ON, 0, r))
        /\ pc' = "L87"
        /\ UNCHANGED <<retval, aborted>>
    /\ UNCHANGED <<ret_pc, enabled, backlight, of_backlight, supply_count,
                   resb_gpio, clk_gpio, i2ciso_gpio, props, bl_hw, entry>>

enable_L81 ==
    /\ pc = "L81"
    /\ \E r \in {0} \cup FailCodes :
        /\ trace' = Append(trace, Op("i2c_write", LS037V7DW06_SLEEP_ON, 0, r))
        /\ IF r # 0
           THEN Return(r)
           ELSE /\ pc' = "L87"
                /\ UNCHANGED <<retval, aborted>>
    /\ UNCHANGED <<ret_pc, enabled, backlight, of_backlight, supply_count,
                   resb_gpio, clk_gpio, i2ciso_gpio, props, bl_hw, entry>>

\* Mutant of enable_L87: the clock line is driven high during the wake-up
\* wait, before the DisplayOn write.
enable_L87_clock_early ==
    /\ pc = "L87"
    /\ clk_gpio' = 1
    /\ trace' = trace \o <<Op("msleep", 100, 0, 0), Op("clk_gpio", 1, 0, 0)>>
    /\ pc' = "L90"
    /\ UNCHANGED <<ret_pc, enabled, backlight, of_backlight, supply_count,
                   resb_gpio, i2ciso_gpio, props, bl_hw, retval, entry,
                   aborted>>

enable_L87 ==
    /\ pc = "L87"
    /\ trace' = Append(trace, Op("msleep", 100, 0, 0))
    /\ pc' = "L90"
    /\ UNCHANGED <<ret_pc, enabled, backlight, of_backlight, supply_count,
                   resb_gpio, clk_gpio, i2ciso_gpio, props, bl_hw, retval,
                   entry, aborted>>

\* Mutant of enable_L90: a failed DisplayOn write is rolled back, the reset
\* line driven low again and the supply disabled.
enable_L90_rollback ==
    /\ pc = "L90"
    /\ \E r \in {0} \cup FailCodes :
        /\ trace' = Append(trace, Op("i2c_write", LS037V7DW06_DISP_ON, 0, r))
        /\ IF r # 0
           THEN /\ Return(r)
                /\ resb_gpio' = 0
                /\ supply_count' = supply_count - 1
           ELSE /\ pc' = "L96"
                /\ UNCHANGED <<retval, aborted, resb_gpio, supply_count>>
    /\ UNCHANGED <<ret_pc, enabled, backlight, of_backlight, clk_gpio,
                   i2ciso_gpio, props, bl_hw, entry>>

enable_L90 ==
    /\ pc = "L90"
    /\ \E r \in {0} \cup FailCodes :
        /\ trace' = Append(trace, Op("i2c_write", LS037V7DW06_DISP_ON, 0, r))
        /\ IF r # 0
           THEN Return(r)
           ELSE /\ pc' = "L96"
                /\ UNCHANGED <<retval, aborted>>
    /\ UNCHANGED <<ret_pc, enabled, backlight, of_backlight, supply_count,
                   resb_gpio, clk_gpio, i2ciso_gpio, props, bl_hw, entry>>

enable_L96 ==
    /\ pc = "L96"
    /\ clk_gpio' = 1
    /\ trace' = Append(trace, Op("clk_gpio", 1, 0, 0))
    /\ pc' = "L99"
    /\ UNCHANGED <<ret_pc, enabled, backlight, of_backlight, supply_count,
                   resb_gpio, i2ciso_gpio, props, bl_hw, retval, entry, aborted>>

\* Mutant of enable_L99: the brightness is left as it was.
enable_L99_keep_brightness ==
    /\ pc = "L99"
    /\ IF backlight = "null"
       THEN /\ pc' = "oops"
            /\ UNCHANGED <<props, trace>>
       ELSE /\ props' = [props EXCEPT
                           !.state = ClearBit(@, BL_CORE_FBBLANK),
                           !.power = FB_BLANK_UNBLANK]
            /\ trace' = Append(trace, Op("backlight_props", props'.power,
                                         props'.brightness, 0))
            /\ pc' = "L102"
    /\ UNCHANGED <<ret_pc, enabled, backlight, of_backlight, supply_count,
                   resb_gpio, clk_gpio, i2ciso_gpio, bl_hw, retval, entry,
                   aborted>>

\* Lines 99-101 write through panel->backlight; a null handle faults there
\* and the calling thread never returns ("oops").
enable_L99 ==
    /\ pc = "L99"
    /\ IF backlight = "null"
       THEN /\ pc' = "oops"
            /\ UNCHANGED <<props, trace>>
       ELSE /\ props' = [props EXCEPT
                           !.state = ClearBit(@, BL_CORE_FBBLANK),
                           !.power = FB_BLANK_UNBLANK,
                           !.brightness = props.max_brightness]
            /\ trace' = Append(trace, Op("backlight_props", props'.power,
                                         props'.brightness, 0))
            /\ pc' = "L102"
    /\ UNCHANGED <<ret_pc, enabled, backlight, of_backlight, supply_count,
                   resb_gpio, clk_gpio, i2ciso_gpio, bl_hw, retval, entry,
                   aborted>>

enable_L102 ==
    /\ pc = "L102"
    /\ bl_hw' = props
    /\ trace' = Append(trace, Op("backlight_update_status", 0, 0, 0))
    /\ pc' = "L105"
    /\ UNCHANGED <<ret_pc, enabled, backlight, of_backlight, supply_count,
                   resb_gpio, clk_gpio, i2ciso_gpio, props, retval, entry,
                   aborted>>

\* Lines 105-107: mark the panel enabled and return retval, which is 0 here.
enable_L105 ==
    /\ pc = "L105"
    /\ enabled' = TRUE
    /\ trace' = Append(trace, Op("enabled", 1, 0, 0))
    /\ Return(0)
    /\ UNCHANGED <<ret_pc, backlight, of_backlight, supply_count, resb_gpio,
                   clk_gpio, i2ciso_gpio, props, bl_hw, entry>>

sharp_ls_enable ==
    \/ enable_L62
    \/ enable_L64
    \/ enable_L67
    \/ enable_L72
    \/ enable_L75
    \/ enable_L78
    \/ enable_L81
    \/ enable_L87
    \/ enable_L90
    \/ enable_L96
    \/ enable_L99
    \/ enable_L102
    \/ enable_L105

----------------------------------------------------------------------------
(* sharp_ls_disable, lines 110-155.                                        *)

\* Lines 115-117 write through panel->backlight, as lines 99-101 do.
disable_L115 ==
    /\ pc = "L115"
    /\ IF backlight = "null"
       THEN /\ pc' = "oops"
            /\ UNCHANGED <<props, trace>>
       ELSE /\ props' = [props EXCEPT
                           !.power = FB_BLANK_POWERDOWN,
                           !.state = SetBit(@, BL_CORE_FBBLANK),
                           !.brightness = 0]
            /\ trace' = Append(trace, Op("backlight_props", props'.power,
                                         props'.brightness, 0))
            /\ pc' = "L118"
    /\ UNCHANGED <<ret_pc, enabled, backlight, of_backlight, supply_count,
                   resb_gpio, clk_gpio, i2ciso_gpio, bl_hw, retval, entry,
                   aborted>>

disable_L118 ==
    /\ pc = "L118"
    /\ bl_hw' = props
    /\ trace' = Append(trace, Op("backlight_update_status", 0, 0, 0))
    /\ pc' = "L121"
    /\ UNCHANGED <<ret_pc, enabled, backlight, of_backlight, supply_count,
                   resb_gpio, clk_gpio, i2ciso_gpio, props, retval, entry,
                   aborted>>

\* Mutant of disable_L121: the clock line is left as it is.
disable_L121_clock_stays ==
    /\ pc = "L121"
    /\ trace' = Append(trace, Op("clk_gpio", clk_gpio, 0, 0))
    /\ pc' = "L124"
    /\ UNCHANGED <<ret_pc, enabled, backlight, of_backlight, supply_count,
                   resb_gpio, clk_gpio, i2ciso_gpio, props, bl_hw, retval,
                   entry, aborted>>

disable_L121 ==
    /\ pc = "L121"
    /\ clk_gpio' = 0
    /\ trace' = Append(trace, Op("clk_gpio", 0, 0, 0))
    /\ pc' = "L124"
    /\ UNCHANGED <<ret_pc, enabled, backlight, of_backlight, supply_count,
                   resb_gpio, i2ciso_gpio, props, bl_hw, retval, entry,
                   aborted>>

disable_L124 ==
    /\ pc = "L124"
    /\ trace' = Append(trace, Op("msleep", 1, 0, 0))
    /\ pc' = "L127"
    /\ UNCHANGED <<ret_pc, enabled, backlight, of_backlight, supply_count,
                   resb_gpio, clk_gpio, i2ciso_gpio, props, bl_hw, retval,
                   entry, aborted>>

\* Mutant of disable_L127: the write's result is not tested.
disable_L127_ignore_error ==
    /\ pc = "L127"
    /\ \E r \in {0} \cup FailCodes :
        /\ trace' = Append(trace, Op("i2c_write", LS037V7DW06_DISP_OFF, 0, r))
        /\ pc' = "L133"
        /\ UNCHANGED <<retval, aborted>>
    /\ UNCHANGED <<ret_pc, enabled, backlight, of_backlight, supply_count,
                   resb_gpio, clk_gpio, i2ciso_gpio, props, bl_hw, entry>>

disable_L127 ==
    /\ pc = "L127"
    /\ \E r \in {0} \cup FailCodes :
        /\ trace' = Append(trace, Op("i2c_write", LS037V7DW06_DISP_OFF, 0, r))
        /\ IF r # 0
           THEN Return(r)
           ELSE /\ pc' = "L133"
                /\ UNCHANGED <<retval, aborted>>
    /\ UNCHANGED <<ret_pc, enabled, backlight, of_backlight, supply_count,
                   resb_gpio, clk_gpio, i2ciso_gpio, props, bl_hw, entry>>

disable_L133 ==
    /\ pc = "L133"
    /\ trace' = Append(trace, Op("msleep", 20, 0, 0))
    /\ pc' = "L135"
    /\ UNCHANGED <<ret_pc, enabled, backlight, of_backlight, supply_count,
                   resb_gpio, clk_gpio, i2ciso_gpio, props, bl_hw, retval,
                   entry, aborted>>

\* Mutant of disable_L135: the other sleep opcode is written.
disable_L135_wrong_opcode ==
    /\ pc = "L135"
    /\ \E r \in {0} \cup FailCodes :
        /\ trace' = Append(trace, Op("i2c_write", LS037V7DW06_SLEEP_ON, 0, r))
        /\ IF r # 0
           THEN Return(r)
           ELSE /\ pc' = "L141"
                /\ UNCHANGED <<retval, aborted>>
    /\ UNCHANGED <<ret_pc, enabled, backlight, of_backlight, supply_count,
                   resb_gpio, clk_gpio, i2ciso_gpio, props, bl_hw, entry>>

disable_L135 ==
    /\ pc = "L135"
    /\ \E r \in {0} \cup FailCodes :
        /\ trace' = Append(trace, Op("i2c_write", LS037V7DW06_SLEEP_OFF, 0, r))
        /\ IF r # 0
           THEN Return(r)
           ELSE /\ pc' = "L141"
                /\ UNCHANGED <<retval, aborted>>
    /\ UNCHANGED <<ret_pc, enabled, backlight, of_backlight, supply_count,
                   resb_gpio, clk_gpio, i2ciso_gpio, props, bl_hw, entry>>

\* Mutant of disable_L141: after the shutdown wait the reset line is left
\* alone and the supply is disabled at once.
disable_L141_skip_reset ==
    /\ pc = "L141"
    /\ trace' = Append(trace, Op("msleep", 100, 0, 0))
    /\ pc' = "L150"
    /\ UNCHANGED <<ret_pc, enabled, backlight, of_backlight, supply_count,
                   resb_gpio, clk_gpio, i2ciso_gpio, props, bl_hw, retval,
                   entry, aborted>>

disable_L141 ==
    /\ pc = "L141"
    /\ trace' = Append(trace, Op("msleep", 100, 0, 0))
    /\ pc' = "L144"
    /\ UNCHANGED <<ret_pc, enabled, backlight, of_backlight, supply_count,
                   resb_gpio, clk_gpio, i2ciso_gpio, props, bl_hw, retval,
                   entry, aborted>>

disable_L144 ==
    /\ pc = "L144"
    /\ resb_gpio' = 0
    /\ trace' = Append(trace, Op("resb_gpio", 0, 0, 0))
    /\ pc' = "L147"
    /\ UNCHANGED <<ret_pc, enabled, backlight, of_backlight, supply_count,
                   clk_gpio, i2ciso_gpio, props, bl_hw, retval, entry,
                   aborted>>

disable_L147 ==
    /\ pc = "L147"
    /\ trace' = Append(trace, Op("msleep", 1, 0, 0))
    /\ pc' = "L150"
    /\ UNCHANGED <<ret_pc, enabled, backlight, of_backlight, supply_count,
                   resb_gpio, clk_gpio, i2ciso_gpio, props, bl_hw, retval,
                   entry, aborted>>

\* Lines 150-154: regulator_disable, whose value is returned either way.  The
\* regulator core refuses a disable at enable count 0 with -EIO.
disable_L150 ==
    /\ pc = "L150"
    /\ \E r \in (IF supply_count = 0 THEN {-EIO} ELSE {0} \cup FailCodes) :
        /\ trace' = Append(trace, Op("regulator_disable", 0, 0, r))
        /\ supply_count' = IF r = 0 THEN supply_count - 1 ELSE supply_count
        /\ Return(r)
    /\ UNCHANGED <<ret_pc, enabled, backlight, of_backlight, resb_gpio,
                   clk_gpio, i2ciso_gpio, props, bl_hw, entry>>

sharp_ls_disable ==
    \/ disable_L115
    \/ disable_L118
    \/ disable_L121
    \/ disable_L124
    \/ disable_L127
    \/ disable_L133
    \/ disable_L135
    \/ disable_L141
    \/ disable_L144
    \/ disable_L147
    \/ disable_L150

----------------------------------------------------------------------------
(* sharp_ls_probe, lines 164-241.  A failing step returns its error; the   *)
(* driver core then leaves the device unbound and releases the devm        *)
(* resources, which does not change a line's level.                        *)

ProbeFails(r) ==
    /\ pc' = "unbound"
    /\ retval' = r

\* Lines 171-181: the adapter check, the zeroed allocation, enabled = false.
probe_L171 ==
    /\ pc = "unbound"
    /\ supply_count < MaxSupply
    /\ \E outcome \in {"no_i2c", "no_memory", "ok"} :
        IF outcome = "ok"
        THEN /\ enabled' = FALSE
             /\ backlight' = "null"
             /\ aborted' = FALSE
             /\ pc' = "L183"
             /\ UNCHANGED retval
        ELSE /\ ProbeFails(IF outcome = "no_i2c" THEN -EIO ELSE -ENOMEM)
             /\ UNCHANGED <<enabled, backlight, aborted>>
    /\ UNCHANGED <<ret_pc, of_backlight, supply_count, resb_gpio, clk_gpio,
                   i2ciso_gpio, props, bl_hw, trace, entry>>

\* Lines 183-185: devm_regulator_get.
probe_L183 ==
    /\ pc = "L183"
    /\ \E r \in {0} \cup FailCodes :
        IF r # 0
        THEN ProbeFails(r)
        ELSE /\ pc' = "L187"
             /\ UNCHANGED retval
    /\ UNCHANGED <<ret_pc, enabled, backlight, of_backlight, supply_count,
                   resb_gpio, clk_gpio, i2ciso_gpio, props, bl_hw, trace,
                   entry, aborted>>

\* Lines 187-193: devm_gpiod_get("resb", GPIOD_OUT_LOW) drives the line low.
probe_L187 ==
    /\ pc = "L187"
    /\ \E r \in {0} \cup FailCodes :
        IF r # 0
        THEN /\ ProbeFails(r)
             /\ UNCHANGED resb_gpio
        ELSE /\ resb_gpio' = 0
             /\ pc' = "L195"
             /\ UNCHANGED retval
    /\ UNCHANGED <<ret_pc, enabled, backlight, of_backlight, supply_count,
                   clk_gpio, i2ciso_gpio, props, bl_hw, trace, entry, aborted>>

\* Lines 195-201: devm_gpiod_get("clock", GPIOD_OUT_LOW).
probe_L195 ==
    /\ pc = "L195"
    /\ \E r \in {0} \cup FailCodes :
        IF r # 0
        THEN /\ ProbeFails(r)
             /\ UNCHANGED clk_gpio
        ELSE /\ clk_gpio' = 0
             /\ pc' = "L203"
             /\ UNCHANGED retval
    /\ UNCHANGED <<ret_pc, enabled, backlight, of_backlight, supply_count,
                   resb_gpio, i2ciso_gpio, props, bl_hw, trace, entry, aborted>>

\* Lines 203-209: devm_gpiod_get("i2c-iso", GPIOD_OUT_LOW).
probe_L203 ==
    /\ pc = "L203"
    /\ \E r \in {0} \cup FailCodes :
        IF r # 0
        THEN /\ ProbeFails(r)
             /\ UNCHANGED i2ciso_gpio
        ELSE /\ i2ciso_gpio' = 0
             /\ pc' = "L213"
             /\ UNCHANGED retval
    /\ UNCHANGED <<ret_pc, enabled, backlight, of_backlight, supply_count,
                   resb_gpio, clk_gpio, props, bl_hw, trace, entry, aborted>>

\* Lines 213-220: the backlight is looked up only when the node names one;
\* without a phandle panel->backlight keeps the allocation's null.
probe_L213 ==
    /\ pc = "L213"
    /\ IF of_backlight
       THEN \E found \in BOOLEAN :
               IF found
               THEN /\ backlight' = "valid"
                    /\ pc' = "L222"
                    /\ UNCHANGED retval
               ELSE /\ ProbeFails(-EPROBE_DEFER)
                    /\ UNCHANGED backlight
       ELSE /\ pc' = "L222"
            /\ UNCHANGED <<backlight, retval>>
    /\ UNCHANGED <<ret_pc, enabled, of_backlight, supply_count, resb_gpio,
                   clk_gpio, i2ciso_gpio, props, bl_hw, trace, entry, aborted>>

\* Lines 222-235: driver_data (never read again) and the client data are
\* stored, then sharp_ls_enable is called.
probe_L222 ==
    /\ pc = "L222"
    /\ pc' = "L62"
    /\ ret_pc' = "L237"
    /\ trace' = <<>>
    /\ entry' = Snapshot("enable")
    /\ UNCHANGED <<enabled, backlight, of_backlight, supply_count, resb_gpio,
                   clk_gpio, i2ciso_gpio, props, bl_hw, retval, aborted>>

\* Lines 237-240: probe returns what sharp_ls_enable returned; the device is
\* bound exactly when that is 0.
probe_L237 ==
    /\ pc = "L237"
    /\ pc' = IF retval = 0 THEN "bound" ELSE "unbound"
    /\ UNCHANGED <<ret_pc, enabled, backlight, of_backlight, supply_count,
                   resb_gpio, clk_gpio, i2ciso_gpio, props, bl_hw, trace,
                   retval, entry, aborted>>

----------------------------------------------------------------------------
(* sharp_ls_remove, lines 243-252: called on a bound device only.          *)

\* Mutant of remove_L245: remove returns 0 without calling sharp_ls_disable.
remove_L245_no_disable ==
    /\ pc = "bound"
    /\ pc' = "L248"
    /\ ret_pc' = "L248"
    /\ trace' = <<>>
    /\ retval' = 0
    /\ entry' = Snapshot("disable")
    /\ UNCHANGED <<enabled, backlight, of_backlight, supply_count, resb_gpio,
                   clk_gpio, i2ciso_gpio, props, bl_hw, aborted>>

\* Lines 245-246: sharp_ls_disable is called whatever panel->enabled holds.
remove_L245 ==
    /\ pc = "bound"
    /\ pc' = "L115"
    /\ ret_pc' = "L248"
    /\ trace' = <<>>
    /\ entry' = Snapshot("disable")
    /\ UNCHANGED <<enabled, backlight, of_backlight, supply_count, resb_gpio,
                   clk_gpio, i2ciso_gpio, props, bl_hw, retval, aborted>>

\* Lines 248-251: remove returns; the device is unbound whatever it returns.
remove_L248 ==
    /\ pc = "L248"
    /\ pc' = "unbound"
    /\ UNCHANGED <<ret_pc, enabled, backlight, of_backlight, supply_count,
                   resb_gpio, clk_gpio, i2ciso_gpio, props, bl_hw, trace,
                   retval, entry, aborted>>

----------------------------------------------------------------------------
(* The driver lifecycle.                                                   *)

Next ==
    \/ probe_L171
    \/ probe_L183
    \/ probe_L187
    \/ probe_L195
    \/ probe_L203
    \/ probe_L213
    \/ probe_L222
    \/ sharp_ls_enable
    \/ probe_L237
    \/ remove_L245
    \/ sharp_ls_disable
    \/ remove_L248

Spec == Init /\ [][Next]_vars

----------------------------------------------------------------------------
(* The two sequence functions called directly on one constructed panel:    *)
(* the handles are resolved as sharp_ls_probe leaves them before line 235, *)
(* with a backlight device found.                                          *)

SeqInit ==
    /\ pc = "ready"
    /\ ret_pc = "ready"
    /\ enabled = FALSE
    /\ backlight = "valid"
    /\ of_backlight = TRUE
    /\ supply_count = 0
    /\ resb_gpio = 0
    /\ clk_gpio = 0
    /\ i2ciso_gpio = 0
    /\ props \in BacklightProps
    /\ bl_hw = props
    /\ trace = <<>>
    /\ retval = 0
    /\ entry = NoEntry
    /\ aborted = FALSE

\* Mutant of call_enable: an enabled panel is refused with -EIO.
call_enable_checks_enabled ==
    /\ pc = "ready"
    /\ supply_count < MaxSupply
    /\ pc' = IF enabled THEN "ready" ELSE "L62"
    /\ retval' = IF enabled THEN -EIO ELSE retval
    /\ ret_pc' = "ready"
    /\ trace' = <<>>
    /\ entry' = Snapshot("enable")
    /\ UNCHANGED <<enabled, backlight, of_backlight, supply_count, resb_gpio,
                   clk_gpio, i2ciso_gpio, props, bl_hw, aborted>>

\* Mutant of call_enable: a panel with an aborted call behind it is refused.
call_enable_checks_aborted ==
    /\ pc = "ready"
    /\ supply_count < MaxSupply
    /\ pc' = IF aborted THEN "ready" ELSE "L62"
    /\ retval' = IF aborted THEN -EIO ELSE retval
    /\ ret_pc' = "ready"
    /\ trace' = <<>>
    /\ entry' = Snapshot("enable")
    /\ UNCHANGED <<enabled, backlight, of_backlight, supply_count, resb_gpio,
                   clk_gpio, i2ciso_gpio, props, bl_hw, aborted>>

\* Line 58: sharp_ls_enable(panel) is entered; it tests nothing on entry.
call_enable ==
    /\ pc = "ready"
    /\ supply_count < MaxSupply
    /\ pc' = "L62"
    /\ ret_pc' = "ready"
    /\ trace' = <<>>
    /\ entry' = Snapshot("enable")
    /\ UNCHANGED <<enabled, backlight, of_backlight, supply_count, resb_gpio,
                   clk_gpio, i2ciso_gpio, props, bl_hw, retval, aborted>>

\* Line 110: sharp_ls_disable(panel) is entered; it tests nothing on entry.
call_disable ==
    /\ pc = "ready"
    /\ pc' = "L115"
    /\ ret_pc' = "ready"
    /\ trace' = <<>>
    /\ entry' = Snapshot("disable")
    /\ UNCHANGED <<enabled, backlight, of_backlight, supply_count, resb_gpio,
                   clk_gpio, i2ciso_gpio, props, bl_hw, retval, aborted>>

SeqNext ==
    \/ call_enable
    \/ sharp_ls_enable
    \/ call_disable
    \/ sharp_ls_disable

SeqSpec == SeqInit /\ [][SeqNext]_vars

----------------------------------------------------------------------------
(* Vocabulary of the properties.                                           *)

\* The last sequence call was sharp_ls_enable (sharp_ls_disable) and it has
\* returned to its caller, whose next statement has not run yet.
EnableDone == entry.fn = "enable" /\ pc \in {"L237", "ready"}
DisableDone == entry.fn = "disable" /\ pc \in {"L248", "ready"}

\* The step of section 4.1 a logged operation is.
StepOf(e) ==
    CASE e.op = "resb_gpio" -> IF e.a = 0 THEN "reset_low" ELSE "reset_high"
      [] e.op = "i2ciso_gpio" ->
             IF e.a = 0 THEN "isolation_low" ELSE "isolation_high"
      [] e.op = "clk_gpio" -> IF e.a = 0 THEN "clock_low" ELSE "clock_high"
      [] e.op = "regulator_enable" -> "supply_enable"
      [] e.op = "regulator_disable" -> "supply_disable"
      [] e.op = "msleep" -> "wait"
      [] e.op = "i2c_write" ->
             IF e.a = LS037V7DW06_DISP_ON THEN "write_DisplayOn"
             ELSE IF e.a = LS037V7DW06_DISP_OFF THEN "write_DisplayOff"
             ELSE "write"
      [] e.op = "backlight_props" ->
             IF e.a = FB_BLANK_UNBLANK THEN "backlight_on" ELSE "backlight_off"
      [] e.op = "backlight_update_status" -> "backlight_apply"
      [] e.op = "enabled" -> "mark_active"
      [] OTHER -> "unknown"

Steps(t) == [i \in 1..Len(t) |-> StepOf(t[i])]

IsPrefix(s, t) == Len(s) <= Len(t) /\ \A i \in 1..Len(s) : s[i] = t[i]

\* No logged operation of the running call has failed.
NoStepFailed == \A i \in 1..Len(trace) : trace[i].r = 0

\* The register writes of the running call, as <<address, data>> pairs.
IsWrite(e) == e.op = "i2c_write"
Writes(t) ==
    LET w == SelectSeq(t, IsWrite)
    IN  [i \in 1..Len(w) |-> <<w[i].a, w[i].b>>]

\* The orders of section 4.1.
ActivateOrder ==
    <<"reset_low", "isolation_low", "supply_enable", "wait", "reset_high",
      "wait", "write", "wait", "write_DisplayOn", "clock_high",
      "backlight_on", "backlight_apply", "mark_active">>

DeactivateOrder ==
    <<"backlight_off", "backlight_apply", "clock_low", "wait",
      "write_DisplayOff", "wait", "write", "wait", "reset_low", "wait",
      "supply_disable">>

----------------------------------------------------------------------------
(* C1  While no step of an activate call has failed, the operations done   *)
(* so far are an initial part of: reset low, isolation low, supply enable, *)
(* wait, reset high, wait, register write, wait, DisplayOn write, clock    *)
(* high, backlight fields set (unblanked, brightness = max), backlight     *)
(* applied, enabled set; a call that returns 0 has done all of them, in    *)
(* that order, with nothing else in between.                               *)
C1_ActivateOrder ==
    (entry.fn = "enable" /\ NoStepFailed) =>
        /\ IsPrefix(Steps(trace), ActivateOrder)
        /\ \A i \in 1..Len(trace) :
              trace[i].op = "backlight_props" =>
                  /\ trace[i].b = props.max_brightness
                  /\ props.brightness = props.max_brightness
                  /\ props.power = FB_BLANK_UNBLANK
                  /\ ~HasBit(props.state, BL_CORE_FBBLANK)
        /\ (EnableDone /\ retval = 0) => Steps(trace) = ActivateOrder

C1_Witness ==
    /\ pc = "L237"
    /\ entry.fn = "enable"
    /\ retval = 0
    /\ Len(trace) = Len(ActivateOrder)

(* C2  While no step of a deactivate call has failed, the operations done  *)
(* so far are an initial part of: backlight powered down/blanked/0,        *)
(* backlight applied, clock low, wait, DisplayOff write, wait, register    *)
(* write, wait, reset low, wait, supply disable; a call that returns 0 has *)
(* done all of them in that order.  So the backlight is off and the clock  *)
(* is low before any register write, and the reset line is low before the  *)
(* supply is disabled.                                                     *)
C2_DeactivateOrder ==
    (entry.fn = "disable" /\ NoStepFailed) =>
        /\ IsPrefix(Steps(trace), DeactivateOrder)
        /\ (DisableDone /\ retval = 0) => Steps(trace) = DeactivateOrder
        /\ \A i \in 1..Len(trace) :
              /\ IsWrite(trace[i]) =>
                    /\ clk_gpio = 0
                    /\ bl_hw.power = FB_BLANK_POWERDOWN
                    /\ bl_hw.brightness = 0
                    /\ HasBit(bl_hw.state, BL_CORE_FBBLANK)
              /\ trace[i].op = "regulator_disable" => resb_gpio = 0

C2_Witness ==
    /\ pc = "L248"
    /\ entry.fn = "disable"
    /\ retval = 0
    /\ Len(trace) = Len(DeactivateOrder)

(* C3  as claimed: a successful activate writes register 0x10 with data    *)
(* 0x00, then register 0x29 with data 0x00, and nothing else.              *)
C3_Claimed ==
    (EnableDone /\ retval = 0) => Writes(trace) = << <<16, 0>>, <<41, 0>> >>

(* C3  amended: a successful activate writes register 0x11 (the constant   *)
(* LS037V7DW06_SLEEP_ON) with data 0x00, then register 0x29 with data      *)
(* 0x00, and nothing else.                                                 *)
C3_ActivateWrites ==
    (EnableDone /\ retval = 0) => Writes(trace) = << <<17, 0>>, <<41, 0>> >>

C3_Witness ==
    /\ pc = "L237"
    /\ retval = 0
    /\ Len(Writes(trace)) = 2
    /\ enabled

(* C4  as claimed: a successful deactivate writes register 0x28 with data  *)
(* 0x00, then register 0x11 with data 0x00, and nothing else.              *)
C4_Claimed ==
    (DisableDone /\ retval = 0) => Writes(trace) = << <<40, 0>>, <<17, 0>> >>

(* C4  amended: a successful deactivate writes register 0x28 with data     *)
(* 0x00, then register 0x10 (the constant LS037V7DW06_SLEEP_OFF) with data *)
(* 0x00, and nothing else.                                                 *)
C4_DeactivateWrites ==
    (DisableDone /\ retval = 0) => Writes(trace) = << <<40, 0>>, <<16, 0>> >>

C4_Witness ==
    /\ pc = "L248"
    /\ retval = 0
    /\ Len(Writes(trace)) = 2
    /\ supply_count = 0

----------------------------------------------------------------------------
(* Vocabulary of the abort and misuse properties.                          *)

\* Some logged step of the call is step name st.
Did(st) == \E i \in 1..Len(trace) : StepOf(trace[i]) = st

\* regulator_enable failed in the call.
SupplyEnableFailed ==
    \E i \in 1..Len(trace) :
        trace[i].op = "regulator_enable" /\ trace[i].r # 0

\* The first register write of the call failed.
FirstWriteFailed ==
    LET w == SelectSeq(trace, IsWrite)
    IN  Len(w) >= 1 /\ w[1].r # 0

\* The value the first failing step of the call returned (0 if none failed).
FirstFailure ==
    IF NoStepFailed THEN 0
    ELSE trace[CHOOSE i \in 1..Len(trace) :
                  /\ trace[i].r # 0
                  /\ \A j \in 1..(i - 1) : trace[j].r = 0].r

ClockUntouched ==
    /\ ~Did("clock_high")
    /\ ~Did("clock_low")
    /\ clk_gpio = entry.clk_gpio

BacklightUntouched ==
    /\ ~Did("backlight_on")
    /\ ~Did("backlight_off")
    /\ ~Did("backlight_apply")
    /\ props = entry.props
    /\ bl_hw = entry.bl_hw

\* Nothing the sequence functions act on differs from what it was on entry.
NoResourceManipulation ==
    /\ trace = <<>>
    /\ supply_count = entry.supply_count
    /\ resb_gpio = entry.resb_gpio
    /\ clk_gpio = entry.clk_gpio
    /\ i2ciso_gpio = entry.i2ciso_gpio
    /\ props = entry.props
    /\ bl_hw = entry.bl_hw

\* The call was entered in the state section 4.1 excludes for it.
WrongStateCall ==
    \/ entry.fn = "enable" /\ entry.enabled
    \/ entry.fn = "disable" /\ ~entry.enabled

\* The returned call ran its sequence from the first step up to the first
\* failing step, or to the end, and returned that step's value.
RanSequence ==
    LET order == IF entry.fn = "enable" THEN ActivateOrder ELSE DeactivateOrder
    IN  /\ Len(trace) >= 1
        /\ IsPrefix(Steps(trace), order)
        /\ retval = FirstFailure
        /\ retval = 0 => Steps(trace) = order
        /\ retval # 0 => trace[Len(trace)].r = retval

----------------------------------------------------------------------------
(* C5  as claimed: when the supply enable fails during activate the call   *)
(* returns an error, the state is Faulted, no register write is issued,    *)
(* the reset line is not driven high, and the clock line and the backlight *)
(* are not touched.                                                        *)
C5_Claimed ==
    (EnableDone /\ SupplyEnableFailed) =>
        /\ retval # 0
        /\ PanelState = "Faulted"
        /\ Writes(trace) = <<>>
        /\ ~Did("reset_high")
        /\ ClockUntouched
        /\ BacklightUntouched

(* C5  amended: when the supply enable fails during activate the call      *)
(* returns the regulator's error code and leaves the enabled flag as it    *)
(* was, false on the probe path (Inactive, never Active; no Faulted state  *)
(* is recorded); no register write is issued, the reset line is not driven *)
(* high and stays low, the enable count is unchanged, and the clock line   *)
(* and the backlight are not touched.                                      *)
C5_SupplyEnableFails ==
    (EnableDone /\ SupplyEnableFailed) =>
        /\ retval # 0
        /\ retval = FirstFailure
        /\ trace[Len(trace)].op = "regulator_enable"
        /\ enabled = entry.enabled
        /\ PanelState = "Inactive"
        /\ supply_count = entry.supply_count
        /\ Writes(trace) = <<>>
        /\ ~Did("reset_high")
        /\ resb_gpio = 0
        /\ ClockUntouched
        /\ BacklightUntouched

C5_Witness ==
    /\ pc = "L237"
    /\ SupplyEnableFailed
    /\ retval = -EIO
    /\ Len(trace) = 3

(* C6  as claimed: when the first register write fails during activate the *)
(* call returns an error, the state is Faulted, the DisplayOn write is     *)
(* never issued, the clock line is never driven high, and the backlight is *)
(* neither modified nor applied.                                           *)
C6_Claimed ==
    (EnableDone /\ FirstWriteFailed) =>
        /\ retval # 0
        /\ PanelState = "Faulted"
        /\ ~Did("write_DisplayOn")
        /\ ClockUntouched
        /\ BacklightUntouched

(* C6  amended: when the first register write fails during activate the    *)
(* call returns that write's error code and leaves the enabled flag as it  *)
(* was, false on the probe path (Inactive; no Faulted state is recorded);  *)
(* the DisplayOn write is never issued, the clock line is never driven     *)
(* high, and the backlight is neither modified nor applied.                *)
C6_FirstWriteFails ==
    (EnableDone /\ FirstWriteFailed) =>
        /\ retval # 0
        /\ retval = FirstFailure
        /\ IsWrite(trace[Len(trace)])
        /\ enabled = entry.enabled
        /\ PanelState = "Inactive"
        /\ Len(Writes(trace)) = 1
        /\ ~Did("write_DisplayOn")
        /\ ClockUntouched
        /\ clk_gpio = 0
        /\ BacklightUntouched

C6_Witness ==
    /\ pc = "L237"
    /\ FirstWriteFailed
    /\ retval = -ENOMEM
    /\ Len(trace) = 7
    /\ supply_count = entry.supply_count + 1

(* C7  as claimed: activate called when Active, and deactivate called when *)
(* Inactive, is refused: it returns an error, leaves the state unchanged   *)
(* and manipulates no resource.                                            *)
C7_Claimed ==
    WrongStateCall =>
        /\ NoResourceManipulation
        /\ enabled = entry.enabled
        /\ pc = "ready" => retval # 0

(* C7  amended: neither function tests the enabled flag.  Activate called  *)
(* when Active, and deactivate called when Inactive, is not refused: the   *)
(* call runs its sequence from the first step, in the order of section     *)
(* 4.1, up to the first failing step or to the end, and returns that       *)
(* step's error code or 0.                                                 *)
C7_NoPreconditionCheck ==
    (WrongStateCall /\ pc = "ready") => RanSequence

C7_Witness ==
    /\ pc = "ready"
    /\ entry.fn = "enable"
    /\ entry.enabled
    /\ retval = 0
    /\ Steps(trace) = ActivateOrder

(* C8  A successful activate followed by a successful deactivate leaves    *)
(* the enabled flag false.  (In the lifecycle sharp_ls_disable runs only   *)
(* after a sharp_ls_enable that returned 0.)                               *)
C8_Claimed ==
    (pc = "L248" /\ entry.fn = "disable" /\ retval = 0) => PanelState = "Inactive"

(* C9  as claimed: once a call has aborted, every later activate or        *)
(* deactivate call is refused, manipulates no resource and leaves the      *)
(* state where the abort left it.                                          *)
C9_Claimed ==
    entry.aborted =>
        /\ NoResourceManipulation
        /\ enabled = entry.enabled
        /\ pc = "ready" => retval # 0

(* C9  amended: an abort is not recorded.  After an aborted call a later   *)
(* activate or deactivate call is not refused: it runs its sequence from   *)
(* the first step up to the first failing step or to the end, and a later  *)
(* activate in which no step fails returns 0 and sets the enabled flag.    *)
C9_AbortNotTerminal ==
    (entry.aborted /\ pc = "ready") =>
        /\ RanSequence
        /\ (entry.fn = "enable" /\ retval = 0) => enabled

C9_Witness ==
    /\ pc = "ready"
    /\ entry.aborted
    /\ entry.fn = "enable"
    /\ ~entry.enabled
    /\ retval = 0
    /\ enabled

(* C10  After a successful activate entered with the supply off, the three *)
(* lines low and the panel not enabled: the supply is enabled, the reset   *)
(* line is high, the clock line is high, the isolation line is low, the    *)
(* backlight has its blank flag cleared, power unblanked and brightness =  *)
(* max_brightness, these props have been applied, and enabled is true.     *)
C10_ActivateFromDeEnergized ==
    ( /\ EnableDone
      /\ retval = 0
      /\ entry.supply_count = 0
      /\ entry.resb_gpio = 0
      /\ entry.clk_gpio = 0
      /\ entry.i2ciso_gpio = 0
      /\ ~entry.enabled ) =>
        /\ supply_count = 1
        /\ resb_gpio = 1
        /\ clk_gpio = 1
        /\ i2ciso_gpio = 0
        /\ ~HasBit(props.state, BL_CORE_FBBLANK)
        /\ props.power = FB_BLANK_UNBLANK
        /\ props.brightness = props.max_brightness
        /\ props.max_brightness = entry.props.max_brightness
        /\ bl_hw = props
        /\ PanelState = "Active"

C10_Witness ==
    /\ pc = "L237"
    /\ retval = 0
    /\ entry.supply_count = 0
    /\ entry.props.brightness < entry.props.max_brightness
    /\ HasBit(entry.props.state, BL_CORE_FBBLANK)
    /\ entry.props.power = FB_BLANK_POWERDOWN
    /\ enabled

----------------------------------------------------------------------------
(* C11  as claimed: after a successful deactivate from the Active state    *)
(* the backlight is powered down with the blank flag set and brightness 0, *)
(* the clock line is low, the reset line is low, the supply is disabled    *)
(* (its enable count is 0) and the isolation line is still low.            *)
C11_Claimed ==
    (pc = "L248" /\ entry.fn = "disable" /\ entry.enabled /\ retval = 0) =>
        /\ props.power = FB_BLANK_POWERDOWN
        /\ HasBit(props.state, BL_CORE_FBBLANK)
        /\ props.brightness = 0
        /\ bl_hw = props
        /\ clk_gpio = 0
        /\ resb_gpio = 0
        /\ supply_count = 0
        /\ i2ciso_gpio = 0
        /\ ~Did("isolation_low")
        /\ ~Did("isolation_high")

----------------------------------------------------------------------------
(* Vocabulary of the no-rollback property.                                 *)

\* The level the call last drove a line to, or the level on entry.
LastLevel(line, before) ==
    LET idx == {i \in 1..Len(trace) : trace[i].op = line}
    IN  IF idx = {} THEN before
        ELSE trace[CHOOSE i \in idx : \A j \in idx : j <= i].a

\* regulator_enable calls of the running call that succeeded.
SupplyEnables ==
    Cardinality({i \in 1..Len(trace) :
                    trace[i].op = "regulator_enable" /\ trace[i].r = 0})

\* The second register write of the call failed.
SecondWriteFailed ==
    LET w == SelectSeq(trace, IsWrite)
    IN  Len(w) = 2 /\ w[1].r = 0 /\ w[2].r # 0

(* C12  When activate aborts, every resource keeps what the steps before   *)
(* the failing one did to it and every resource only later steps touch is  *)
(* as on entry.  When the DisplayOn write fails, on return the supply is   *)
(* still enabled, the reset line is high, the isolation line is low, the   *)
(* clock line is still low and the backlight is unmodified.                *)
C12_NoRollback ==
    (EnableDone /\ retval # 0) =>
        /\ resb_gpio = LastLevel("resb_gpio", entry.resb_gpio)
        /\ i2ciso_gpio = LastLevel("i2ciso_gpio", entry.i2ciso_gpio)
        /\ clk_gpio = entry.clk_gpio
        /\ supply_count = entry.supply_count + SupplyEnables
        /\ BacklightUntouched
        /\ enabled = entry.enabled
        /\ SecondWriteFailed =>
              /\ Steps(trace) = SubSeq(ActivateOrder, 1, 9)
              /\ supply_count = entry.supply_count + 1
              /\ resb_gpio = 1
              /\ i2ciso_gpio = 0
              /\ clk_gpio = 0
              /\ ClockUntouched

C12_Witness ==
    /\ pc = "L237"
    /\ SecondWriteFailed
    /\ retval # 0
    /\ supply_count >= 1
    /\ resb_gpio = 1

----------------------------------------------------------------------------
\* regulator_disable failed in the call.
SupplyDisableFailed ==
    \E i \in 1..Len(trace) :
        trace[i].op = "regulator_disable" /\ trace[i].r # 0

(* C13  as claimed: deactivate aborts on its first failing step and the    *)
(* state becomes Faulted; when the DisplayOff write fails the second       *)
(* register write is never issued, the reset line is not driven low and    *)
(* the supply is not disabled; when the supply disable fails the call      *)
(* returns an error and the state is not Inactive.                         *)
C13_Claimed ==
    (DisableDone /\ retval # 0) =>
        /\ PanelState = "Faulted"
        /\ FirstWriteFailed =>
              /\ Len(Writes(trace)) = 1
              /\ ~Did("reset_low")
              /\ ~Did("supply_disable")
        /\ SupplyDisableFailed => PanelState # "Inactive"

(* C13  amended: deactivate aborts on its first failing step, returns that *)
(* step's error code and leaves the enabled flag as it was, true on the    *)
(* remove path (the recorded state stays Active; no Faulted state is       *)
(* recorded); when the DisplayOff write fails the second register write is *)
(* never issued, the reset line is not driven low and the supply is not    *)
(* disabled; when the supply disable fails the state is not Inactive.      *)
C13_DeactivateAborts ==
    (DisableDone /\ retval # 0) =>
        /\ retval = FirstFailure
        /\ trace[Len(trace)].r = retval
        /\ IsPrefix(Steps(trace), DeactivateOrder)
        /\ enabled = entry.enabled
        /\ PanelState = "Active"
        /\ supply_count = entry.supply_count
        /\ FirstWriteFailed =>
              /\ Len(Writes(trace)) = 1
              /\ ~Did("reset_low")
              /\ resb_gpio = entry.resb_gpio
              /\ ~Did("supply_disable")
        /\ SupplyDisableFailed =>
              /\ Steps(trace) = DeactivateOrder
              /\ PanelState # "Inactive"

C13_Witness ==
    /\ pc = "L248"
    /\ entry.fn = "disable"
    /\ FirstWriteFailed
    /\ retval # 0
    /\ resb_gpio = 1
    /\ supply_count >= 1

----------------------------------------------------------------------------
\* Every step `after` of the call was made right after a wait of at least min
\* milliseconds, which itself followed a successful step `before`.
WaitBetween(before, after, min) ==
    \A i \in 1..Len(trace) :
        StepOf(trace[i]) = after =>
            /\ i >= 3
            /\ trace[i - 1].op = "msleep"
            /\ trace[i - 1].a >= min
            /\ StepOf(trace[i - 2]) = before
            /\ trace[i - 2].r = 0

\* The waits of the call, in milliseconds, in order.
IsWait(e) == e.op = "msleep"
Waits(t) ==
    LET w == SelectSeq(t, IsWait)
    IN  [i \in 1..Len(w) |-> w[i].a]

(* C14  Every settle wait is at least its specified minimum and sits       *)
(* between the specified steps.  Activate: >= 10 ms between supply enable  *)
(* and reset high, >= 1 ms between reset high and the first register       *)
(* write, >= 100 ms between the first register write and the DisplayOn     *)
(* write.  Deactivate: >= 1 ms between clock low and the DisplayOff write, *)
(* >= 20 ms between the two register writes, >= 100 ms between the second  *)
(* register write and reset low, >= 1 ms between reset low and supply      *)
(* disable.  A call that returns 0 has made all of its waits.              *)
C14_SettleWaits ==
    /\ entry.fn = "enable" =>
          /\ WaitBetween("supply_enable", "reset_high", 10)
          /\ WaitBetween("reset_high", "write", 1)
          /\ WaitBetween("write", "write_DisplayOn", 100)
          /\ (EnableDone /\ retval = 0) =>
                /\ Len(Waits(trace)) = 3
                /\ Waits(trace)[1] >= 10
                /\ Waits(trace)[2] >= 1
                /\ Waits(trace)[3] >= 100
    /\ entry.fn = "disable" =>
          /\ WaitBetween("clock_low", "write_DisplayOff", 1)
          /\ WaitBetween("write_DisplayOff", "write", 20)
          /\ WaitBetween("write", "reset_low", 100)
          /\ WaitBetween("reset_low", "supply_disable", 1)
          /\ (DisableDone /\ retval = 0) =>
                /\ Len(Waits(trace)) = 4
                /\ Waits(trace)[1] >= 1
                /\ Waits(trace)[2] >= 20
                /\ Waits(trace)[3] >= 100
                /\ Waits(trace)[4] >= 1

C14_Witness ==
    /\ pc = "L248"
    /\ entry.fn = "disable"
    /\ retval = 0
    /\ Waits(trace) = <<1, 20, 100, 1>>

----------------------------------------------------------------------------
(* C15  as claimed: when sharp_ls_remove is called on an Active panel the  *)
(* full deactivate sequence has been run when it returns, and a deactivate *)
(* is run on release only if the panel is Active.                          *)
C15_Claimed ==
    /\ (pc = "L248" /\ entry.enabled) =>
          /\ entry.fn = "disable"
          /\ Steps(trace) = DeactivateOrder
    /\ entry.fn = "disable" => entry.enabled

(* C15  amended: when sharp_ls_remove is called on an Active panel,        *)
(* sharp_ls_disable has been run when it returns: from its first step, in  *)
(* order, to the end when no step fails, and otherwise up to the first     *)
(* failing step, whose error remove returns.  The call is unconditional;   *)
(* remove runs on a bound device only, so the panel is Active whenever a   *)
(* deactivate is run on release.                                           *)
C15_RemoveRunsDeactivate ==
    /\ pc = "L248" =>
          /\ entry.fn = "disable"
          /\ entry.enabled
          /\ RanSequence
          /\ NoStepFailed => (Steps(trace) = DeactivateOrder /\ retval = 0)
    /\ entry.fn = "disable" => entry.enabled

C15_Witness ==
    /\ pc = "L248"
    /\ entry.fn = "disable"
    /\ entry.enabled
    /\ NoStepFailed
    /\ Steps(trace) = DeactivateOrder
    /\ clk_gpio = 0

----------------------------------------------------------------------------
(* C16  Whenever sharp_ls_probe calls sharp_ls_enable, panel->backlight is *)
(* non-null, also when the device node has no "backlight" reference, and   *)
(* the backlight step never dereferences a null handle.                    *)
C16_Claimed ==
    /\ (entry.fn = "enable" /\ pc = "L62") => backlight # "null"
    /\ pc # "oops"

(* C17  Across any sequence of probe and remove calls the supply's enable  *)
(* count (successful enables minus successful disables) is 0 or 1, and     *)
(* regulator_disable is never called at a count of 0.                      *)
C17_Claimed ==
    /\ supply_count \in {0, 1}
    /\ (entry.fn = "disable" /\ Did("supply_disable")) =>
          entry.supply_count >= 1

----------------------------------------------------------------------------
\* The statements of sharp_ls_enable.
EnableLines ==
    {"L62", "L64", "L67", "L72", "L75", "L78", "L81", "L87", "L90", "L96",
     "L99", "L102", "L105"}

(* C18  In every state of the probe/remove lifecycle, inside the two       *)
(* sequence functions and after any abort included, the clock line is high *)
(* only while the supply is enabled and the reset line is high.            *)
C18_ClockOnlyWhilePowered ==
    clk_gpio = 1 => (supply_count >= 1 /\ resb_gpio = 1)

C18_Witness ==
    /\ pc = "L121"
    /\ clk_gpio = 1
    /\ resb_gpio = 1
    /\ supply_count >= 1

(* C19  Starting from enabled = false, as probe sets it, the flag is false *)
(* at every point of a sharp_ls_enable call before its last statement, an  *)
(* aborted call leaves it false, and the call returns 0 exactly when it    *)
(* has set the flag.                                                       *)
C19_EnabledOnlyOnSuccess ==
    (entry.fn = "enable" /\ ~entry.enabled) =>
        /\ pc \in EnableLines \cup {"oops"} => ~enabled
        /\ EnableDone => (retval = 0 <=> enabled)
        /\ EnableDone => (enabled <=> Steps(trace) = ActivateOrder)
        /\ (EnableDone /\ ~NoStepFailed) => (~enabled /\ retval # 0)

C19_Witness ==
    /\ pc = "L237"
    /\ entry.fn = "enable"
    /\ ~entry.enabled
    /\ ~NoStepFailed
    /\ ~enabled
    /\ supply_count = entry.supply_count + 1

(* C20  The isolation line is low in every state: probe requests it low,   *)
(* activate drives it low, and no step of any call drives it high.         *)
C20_IsolationLow ==
    /\ i2ciso_gpio = 0
    /\ ~Did("isolation_high")

C20_Witness ==
    /\ pc = "L67"
    /\ Did("isolation_low")
    /\ i2ciso_gpio = 0
    /\ supply_count >= 1

====
